---- MODULE Spec2Model ----
(***************************************************************************)
(* Excel/CSV Automation Tool (src/app.py): the merge / clean / deduplicate *)
(* / report pipeline process_and_report, as it is driven by the desktop    *)
(* shell (App.on_process_click starting App._background_process).          *)
(*                                                                         *)
(* A text value is a sequence of tokens; the token " " is whitespace, so   *)
(* <<" ", "Al">> is the text " Al".  A cell is a tagged value: text, a     *)
(* number, a missing marker (NaN / NaT / None) or a timestamp object.      *)
(* A table keeps its column names, the dtype pandas holds for each column, *)
(* and its rows.  Widget contents (list box, preview box, progress bar     *)
(* position) are not part of the state; the calls that change them are     *)
(* the steps that append to events and set dialog / popup_open.  A         *)
(* progress update handed to root.after(0, ...) takes effect in the step   *)
(* that schedules it: events is the sequence of updates in emission order. *)
(* Under Spec the callbacks that end a run (close, _set_ui_state, the      *)
(* message box) take effect in one step as well; under SpecShell they wait *)
(* in after_queue until the main loop runs them, one at a time.            *)
(***************************************************************************)
EXTENDS Integers, Sequences, FiniteSets, TLC

\* ---------------------------------------------------------------- bounds
\* the longest file list the user selects
MaxFiles == 2
\* the longest table handed to remove_duplicates on its own
MaxRows == 4
\* how many times the Process button starts a run
MaxRuns == 1
\* the last instant of the wall clock, in ticks
MaxClock == 2
\* clock ticks in one second (the resolution strftime's %S keeps)
TicksPerSecond == 2

\* ---------------------------------------------------------------- cells
Str(s) == [k |-> "str", v |-> s]
Num(n) == [k |-> "num", v |-> <<n>>]
NaN == [k |-> "nan", v |-> <<>>]
Ts(t) == [k |-> "ts", v |-> <<t>>]

IsNa(c) == c.k = "nan"

RECURSIVE LStrip(_)
LStrip(s) == IF s # <<>> /\ Head(s) = " " THEN LStrip(Tail(s)) ELSE s

RECURSIVE RStrip(_)
RStrip(s) ==
    IF s # <<>> /\ s[Len(s)] = " " THEN RStrip(SubSeq(s, 1, Len(s) - 1)) ELSE s

\* str.strip()
Strip(s) == RStrip(LStrip(s))

\* Series.astype(str) on one cell: str(x)
AsTypeStr(c) ==
    CASE c.k = "str" -> c
      [] c.k = "num" -> Str(<<ToString(c.v[1])>>)
      [] c.k = "nan" -> Str(<<"nan">>)
      [] c.k = "ts"  -> Str(<<"ts", ToString(c.v[1])>>)

\* Series.fillna(value) on one cell
FillNa(c, value) == IF IsNa(c) THEN value ELSE c

\* pd.to_numeric(errors='coerce') on one cell
ToNumeric(c) == IF c.k = "num" THEN c ELSE NaN

\* Series.str.strip() on one cell (a non-text element gives NaN)
StrStrip(c) == IF c.k = "str" THEN Str(Strip(c.v)) ELSE NaN

\* ---------------------------------------------------------------- tables
Column(df, j) == [i \in 1..Len(df.rows) |-> df.rows[i][j]]

SetColumn(df, j, dtype, vals) ==
    [cols   |-> df.cols,
     dtypes |-> [df.dtypes EXCEPT ![j] = dtype],
     rows   |-> [i \in 1..Len(df.rows) |-> [df.rows[i] EXCEPT ![j] = vals[i]]]]

\* pd.DataFrame()
EmptyFrame == [cols |-> <<>>, dtypes |-> <<>>, rows |-> <<>>]

\* the emptiness test left out
IsEmptyNever(df) == FALSE

\* DataFrame.empty: some axis has length 0
IsEmpty(df) == Len(df.cols) = 0 \/ Len(df.rows) = 0

IndexOf(s, x) == CHOOSE i \in 1..Len(s) : s[i] = x

InSeq(s, x) == \E i \in 1..Len(s) : s[i] = x

\* ---------------------------------------------------------------- clean_df
CleanObject(vals) ==
    [i \in 1..Len(vals) |-> StrStrip(AsTypeStr(FillNa(vals[i], Str(<<>>))))]

CleanNumeric(vals) ==
    [i \in 1..Len(vals) |-> FillNa(ToNumeric(vals[i]), Num(0))]

CleanOther(vals) ==
    [i \in 1..Len(vals) |-> FillNa(vals[i], Str(<<>>))]

CleanFallback(vals) ==
    [i \in 1..Len(vals) |-> StrStrip(FillNa(AsTypeStr(vals[i]), Str(<<>>)))]

\* fillna("") raises on a categorical column ("" is not a category); a
\* datetime column is upcast to object instead.
FillNaRaises(dtype) == dtype = "category"

\* the dtype a column holds after fillna(""): a datetime column that held a
\* missing value now mixes timestamps and text
OtherDtypeAfter(dtype, vals) ==
    IF \E i \in 1..Len(vals) : IsNa(vals[i]) THEN "object" ELSE dtype

\* one iteration of clean_df's loop over column j
CleanColumn(df, j) ==
    LET dtype == df.dtypes[j]
        vals == Column(df, j)
    IN  IF dtype = "object" THEN SetColumn(df, j, "object", CleanObject(vals))
        ELSE IF dtype = "numeric" THEN SetColumn(df, j, "numeric", CleanNumeric(vals))
        ELSE IF FillNaRaises(dtype) THEN SetColumn(df, j, "object", CleanFallback(vals))
        ELSE SetColumn(df, j, OtherDtypeAfter(dtype, vals), CleanOther(vals))

RECURSIVE CleanFrom(_, _)
CleanFrom(df, j) ==
    IF j > Len(df.cols) THEN df ELSE CleanFrom(CleanColumn(df, j), j + 1)

\* clean_df without a progress callback: every column in column order
clean_df(df) == CleanFrom(df, 1)

\* ---------------------------------------------------------------- remove_duplicates
\* drop_duplicates() called for its effect: the frame is returned as it was
DropDuplicatesKeepAll(rows) == rows

\* drop_duplicates(keep='last'): the last row of each group stays
RECURSIVE DropDuplicatesKeepLast(_)
DropDuplicatesKeepLast(rows) ==
    IF rows = <<>> THEN <<>>
    ELSE IF InSeq(Tail(rows), Head(rows)) THEN DropDuplicatesKeepLast(Tail(rows))
    ELSE <<Head(rows)>> \o DropDuplicatesKeepLast(Tail(rows))

RECURSIVE DropDuplicates(_)
DropDuplicates(rows) ==
    IF rows = <<>> THEN <<>>
    ELSE LET init == DropDuplicates(SubSeq(rows, 1, Len(rows) - 1))
             last == rows[Len(rows)]
         IN  IF InSeq(SubSeq(rows, 1, Len(rows) - 1), last) THEN init
             ELSE Append(init, last)

remove_duplicates(df) ==
    LET before == Len(df.rows)
        df2 == [df EXCEPT !.rows = DropDuplicates(df.rows)]
    IN  [df |-> df2, removed |-> before - Len(df2.rows)]

\* ---------------------------------------------------------------- input files
\* The files the user can select.  A path is its directory, its base name and
\* its extension; what the file holds is its format and (for a workbook or a
\* delimited text) its table.
Path(dir, base, ext) == [dir |-> dir, base |-> base, ext |-> ext]

PathA == Path("/data", "a.csv", "csv")
PathB == Path("/data", "b.csv", "csv")
PathX == Path("/data", "x.xlsx", "xlsx")
PathE == Path("/data", "e.csv", "csv")
PathBad == Path("/data", "bad.txt", "txt")
PathMis == Path("/data", "m.csv", "csv")

InputFiles == {PathA, PathB, PathX, PathE, PathBad, PathMis}

Text(tok) == Str(<<tok>>)

Frame(cols, dtypes, rows) == [cols |-> cols, dtypes |-> dtypes, rows |-> rows]

\* a.csv and b.csv of the two-file scenario; x.xlsx has a text column with
\* padded and missing values and a date column with a blank cell; e.csv is
\* a header line without data rows; bad.txt is no workbook and m.csv is a
\* binary file under a .csv name.
FileContent(p) ==
    CASE p = PathA ->
           [format |-> "csv",
            table |-> Frame(<<"Name", "Score">>, <<"object", "numeric">>,
                            << <<Text("Al"), Num(10)>>, <<Text("Bo"), Num(20)>> >>)]
      [] p = PathB ->
           [format |-> "csv",
            table |-> Frame(<<"Name", "Score">>, <<"object", "numeric">>,
                            << <<Text("Al"), Num(10)>>, <<Text("Cy"), Num(30)>> >>)]
      [] p = PathX ->
           [format |-> "xlsx",
            table |-> Frame(<<"Name", "When">>, <<"object", "datetime">>,
                            << <<Str(<<" ", "Al">>), Ts(1)>>,
                               <<Str(<<"Al", " ">>), Ts(1)>>,
                               <<NaN, NaN>> >>)]
      [] p = PathE ->
           [format |-> "csv",
            table |-> Frame(<<"Name">>, <<"object">>, <<>>)]
      [] p = PathBad ->
           [format |-> "text", table |-> EmptyFrame]
      [] OTHER ->
           [format |-> "binary", table |-> EmptyFrame]

\* os.path.basename
Basename(p) == p.base

\* str.lower() on an extension
Lower(ext) ==
    CASE ext = "CSV" -> "csv"
      [] ext = "XLSX" -> "xlsx"
      [] OTHER -> ext

\* load_file: the parser is picked by the extension; pd.read_csv parses a
\* delimited text, pd.read_excel a workbook, and either raises on a file of
\* another format.
load_file(p) ==
    LET f == FileContent(p)
    IN  IF Lower(p.ext) = "csv"
        THEN [ok |-> f.format = "csv", df |-> f.table]
        ELSE [ok |-> f.format = "xlsx", df |-> f.table]

\* df['Source_File'] = base
TagSource(df, base) ==
    IF InSeq(df.cols, "Source_File")
    THEN SetColumn(df, IndexOf(df.cols, "Source_File"), "object",
                   [i \in 1..Len(df.rows) |-> Text(base)])
    ELSE [cols   |-> Append(df.cols, "Source_File"),
          dtypes |-> Append(df.dtypes, "object"),
          rows   |-> [i \in 1..Len(df.rows) |-> Append(df.rows[i], Text(base))]]

\* ---------------------------------------------------------------- pd.concat
RECURSIVE AddCols(_, _)
AddCols(acc, cols) ==
    IF cols = <<>> THEN acc
    ELSE AddCols(IF InSeq(acc, Head(cols)) THEN acc ELSE Append(acc, Head(cols)),
                 Tail(cols))

RECURSIVE ConcatCols(_)
ConcatCols(dfs) ==
    IF dfs = <<>> THEN <<>>
    ELSE AddCols(ConcatCols(SubSeq(dfs, 1, Len(dfs) - 1)), dfs[Len(dfs)].cols)

\* the common dtype of a column over the frames that have it
ConcatDtype(dfs, name) ==
    LET ds == {dfs[i].dtypes[IndexOf(dfs[i].cols, name)] :
                 i \in {k \in 1..Len(dfs) : InSeq(dfs[k].cols, name)}}
    IN  IF Cardinality(ds) = 1 THEN CHOOSE d \in ds : TRUE ELSE "object"

\* a row of df laid out over the combined columns; a column df lacks is missing
Reindex(df, row, cols) ==
    [j \in 1..Len(cols) |->
        IF InSeq(df.cols, cols[j]) THEN row[IndexOf(df.cols, cols[j])] ELSE NaN]

RECURSIVE ConcatRows(_, _)
ConcatRows(dfs, cols) ==
    IF dfs = <<>> THEN <<>>
    ELSE LET d == dfs[Len(dfs)]
         IN  ConcatRows(SubSeq(dfs, 1, Len(dfs) - 1), cols)
               \o [i \in 1..Len(d.rows) |-> Reindex(d, d.rows[i], cols)]

\* pd.concat(dfs, ignore_index=True)
Concat(dfs) ==
    LET cols == ConcatCols(dfs)
    IN  [cols   |-> cols,
         dtypes |-> [j \in 1..Len(cols) |-> ConcatDtype(dfs, cols[j])],
         rows   |-> ConcatRows(dfs, cols)]

\* ---------------------------------------------------------------- merge_and_tag
\* read_files.append moved out of the try block: every file is listed
MergeStepListsAll(acc, f) ==
    LET r == load_file(f)
    IN  [dfs |-> IF r.ok THEN Append(acc.dfs, TagSource(r.df, Basename(f))) ELSE acc.dfs,
         read_files |-> Append(acc.read_files, Basename(f))]

\* one iteration of merge_and_tag's loop: the accumulators after file f
MergeStep(acc, f) ==
    LET r == load_file(f)
    IN  IF r.ok
        THEN [dfs |-> Append(acc.dfs, TagSource(r.df, Basename(f))),
              read_files |-> Append(acc.read_files, Basename(f))]
        ELSE acc

\* what merge_and_tag returns once the loop is over
MergeResult(acc) ==
    IF acc.dfs = <<>>
    THEN [combined |-> EmptyFrame, read_files |-> <<>>]
    ELSE [combined |-> Concat(acc.dfs), read_files |-> acc.read_files]

\* int(i / total * 100): the float product truncates to the integer quotient
\* for every total below 50 (29/50*100 is the first that does not)
LoopPercent(i, n) ==
    LET total == IF n > 1 THEN n ELSE 1
    IN  (i * 100) \div total

\* the lambdas process_and_report hands to merge_and_tag and clean_df:
\* 5 + int(p * 0.1) and 30 + int(p * 0.2)
\* the load percent handed on without the 0.1 scale
LoadUnscaled(p) == 5 + p

LoadScaled(p) == 5 + (p \div 10)

\* the clean percent handed on without the 0.2 scale
CleanUnscaled(p) == 30 + p

CleanScaled(p) == 30 + (p \div 5)

\* ---------------------------------------------------------------- state
VARIABLES
    files,            \* App.files: the selected paths, in selection order
    btn_state,        \* the state _set_ui_state gave the buttons
    popup_open,       \* whether the ProgressPopup is up
    dialog,           \* the message box on screen, or "none"
    last_run_folder,  \* App.last_run_folder
    clock,            \* datetime.now(), in ticks
    dirs,             \* the directories that exist under the working directory
    disk,             \* output files on disk: path -> the run whose content it holds
    writes,           \* every <<path, run>> that was ever written
    run_dirs,         \* the run folder of each run, in start order
    nruns,            \* runs started so far; the running run's number
    runs_left,        \* how many more times the user presses Process with files
    after_queue,      \* the callbacks handed to root.after(0, ...) and not yet run
    tails,            \* per worker that has asked for the buttons back and still
                      \* lives: the message box it has yet to schedule
    pc,               \* where the worker thread is
    output_folder,    \* process_and_report's locals ...
    idx,
    acc,
    read_files,
    df,
    before,
    removed,
    timestamp,
    chart_paths,
    error,            \* the message of the exception in flight, or ""
    res,              \* the bundle process_and_report returned, or NoBundle
    events            \* the Progress Events of the running run, in emission order

ui_vars == <<files, btn_state, popup_open, dialog, last_run_folder>>
fs_vars == <<dirs, disk, writes, run_dirs>>
shell_vars == <<after_queue, tails>>
local_vars == <<output_folder, idx, acc, read_files, df, before, removed,
                timestamp, chart_paths, error, res>>
vars == <<ui_vars, clock, fs_vars, nruns, runs_left, shell_vars, pc, local_vars, events>>

NoBundle == [merged |-> "", cleaned |-> "", pdf |-> "", charts |-> <<>>,
             output_folder |-> "", rows |-> 0, duplicates_removed |-> 0,
             read_files |-> <<>>]

EmptyAcc == [dfs |-> <<>>, read_files |-> <<>>]

\* the locals of a process_and_report call that has not run yet
LocalsInit ==
    /\ output_folder = ""
    /\ idx = 0
    /\ acc = EmptyAcc
    /\ read_files = <<>>
    /\ df = EmptyFrame
    /\ before = 0
    /\ removed = 0
    /\ timestamp = ""
    /\ chart_paths = <<>>
    /\ error = ""
    /\ res = NoBundle

\* the worker thread ends: its frames and their locals are gone
LocalsGone ==
    /\ output_folder' = ""
    /\ idx' = 0
    /\ acc' = EmptyAcc
    /\ read_files' = <<>>
    /\ df' = EmptyFrame
    /\ before' = 0
    /\ removed' = 0
    /\ timestamp' = ""
    /\ chart_paths' = <<>>
    /\ error' = ""
    /\ res' = NoBundle

\* ---------------------------------------------------------------- utilities
\* strftime with second resolution: the ticks within one second are dropped
SecondOf(t) == t \div TicksPerSecond

\* ensure_base_output_folder: <cwd>/output
BaseOutput == "output"

Join(a, b) == a \o "/" \o b

run_folder_name(now) == "Data-Report-" \o ToString(SecondOf(now))

ts(now) == ToString(SecondOf(now))

Event(percent, stage, status) ==
    [percent |-> percent, stage |-> stage, status |-> status]

\* to_excel / savefig / pdf.output of the running run at path
WriteFile(d, path) ==
    [p \in DOMAIN d \cup {path} |-> IF p = path THEN nruns ELSE d[p]]

\* ---------------------------------------------------------------- App
InitApp ==
    /\ files = <<>>
    /\ btn_state = "normal"
    /\ popup_open = FALSE
    /\ dialog = "none"
    /\ last_run_folder = ""
    /\ clock = 0
    /\ dirs = {BaseOutput}
    /\ disk = [p \in {} |-> 0]
    /\ writes = {}
    /\ run_dirs = <<>>
    /\ nruns = 0
    /\ after_queue = <<>>
    /\ tails = <<>>
    /\ pc = "idle"
    /\ LocalsInit
    /\ events = <<>>

\* the application after construction, in a session of at most MaxRuns runs
Init ==
    /\ InitApp
    /\ runs_left = MaxRuns

\* the same, in a session one run longer
InitLonger ==
    /\ InitApp
    /\ runs_left = MaxRuns + 1

\* time passes
Tick ==
    /\ clock < MaxClock
    /\ clock' = clock + 1
    /\ UNCHANGED <<ui_vars, fs_vars, nruns, runs_left, shell_vars, pc, local_vars, events>>

\* _set_ui_state that leaves the buttons enabled whatever it is asked
set_ui_state_normal(enabled) == "normal"

\* _set_ui_state: the state every button is configured with
set_ui_state(enabled) == IF enabled THEN "normal" ELSE "disabled"

\* the buttons answer only while they are enabled and no modal box is up
UiReady == btn_state = "normal" /\ dialog = "none" /\ ~popup_open

\* choose_files / add_files with one path picked in the dialog
add_files(p) ==
    /\ UiReady
    /\ Len(files) < MaxFiles
    /\ ~InSeq(files, p)
    /\ files' = Append(files, p)
    /\ UNCHANGED <<btn_state, popup_open, dialog, last_run_folder, clock, fs_vars,
                   nruns, runs_left, shell_vars, pc, local_vars, events>>

clear_list ==
    /\ UiReady
    /\ files # <<>>
    /\ files' = <<>>
    /\ UNCHANGED <<btn_state, popup_open, dialog, last_run_folder, clock, fs_vars,
                   nruns, runs_left, shell_vars, pc, local_vars, events>>

\* the user closes the message box
dismiss_dialog ==
    /\ dialog # "none"
    /\ dialog' = "none"
    /\ UNCHANGED <<files, btn_state, popup_open, last_run_folder, clock, fs_vars,
                   nruns, runs_left, shell_vars, pc, local_vars, events>>

on_process_click ==
    /\ UiReady
    /\ IF files = <<>>
       THEN /\ dialog' = "No files"
            /\ UNCHANGED <<btn_state, popup_open, nruns, runs_left, pc, events>>
       ELSE /\ runs_left > 0
            /\ btn_state' = set_ui_state(FALSE)
            /\ popup_open' = TRUE
            /\ nruns' = nruns + 1
            /\ runs_left' = runs_left - 1
            /\ pc' = "start"
            /\ events' = <<>>
            /\ UNCHANGED dialog
    /\ UNCHANGED <<files, last_run_folder, clock, fs_vars, local_vars, shell_vars>>

\* ---------------------------------------------------------------- process_and_report
Emit(evs, percent, stage, status) == Append(evs, Event(percent, stage, status))

\* raise: the exception leaves process_and_report for _background_process
Raise(msg) ==
    /\ error' = msg
    /\ pc' = "raised"

\* the guard left out: an empty list goes on to the run folder
NoFilesNever(fs) == FALSE

\* not files
NoFiles(fs) == fs = <<>>

\* lines 248-257: the guard, the run folder, the first progress event
par_start ==
    /\ pc = "start"
    /\ IF NoFiles(files)
       THEN /\ Raise("No files provided.")
            /\ UNCHANGED <<fs_vars, output_folder, idx, acc, events>>
       ELSE LET folder == Join(BaseOutput, run_folder_name(clock))
            IN  /\ dirs' = dirs \cup {BaseOutput, folder}
                /\ run_dirs' = Append(run_dirs, folder)
                /\ output_folder' = folder
                /\ events' = Emit(events, 5, "Loading", "Starting: loading files")
                /\ acc' = EmptyAcc
                /\ idx' = 1
                /\ pc' = "load_loop"
                /\ UNCHANGED <<disk, writes, error>>
    /\ UNCHANGED <<ui_vars, clock, nruns, runs_left, shell_vars, read_files, df, before, removed,
                   timestamp, chart_paths, res>>

\* merge_and_tag, one file of its loop (lines 96-106)
merge_and_tag_file ==
    /\ pc = "load_loop"
    /\ idx <= Len(files)
    /\ acc' = MergeStep(acc, files[idx])
    /\ events' = Emit(events, LoadScaled(LoopPercent(idx, Len(files))), "Loading",
                      "Loaded " \o ToString(idx) \o "/" \o ToString(Len(files)) \o " files")
    /\ idx' = idx + 1
    /\ UNCHANGED <<ui_vars, clock, fs_vars, nruns, runs_left, shell_vars, pc, output_folder, read_files, df,
                   before, removed, timestamp, chart_paths, error, res>>

\* merge_and_tag returns (lines 107-110); the emptiness test and the events
\* that close loading and open cleaning (lines 259-266)
load_done ==
    /\ pc = "load_loop"
    /\ idx > Len(files)
    /\ LET m == MergeResult(acc)
       IN  IF IsEmpty(m.combined)
           THEN /\ Raise("No readable data found in the provided files.")
                /\ UNCHANGED <<df, read_files, idx, events>>
           ELSE /\ df' = m.combined
                /\ read_files' = m.read_files
                /\ events' = Emit(Emit(events, 25, "Loading", "Files loaded; merging complete"),
                                  30, "Cleaning", "Cleaning data")
                /\ idx' = 1
                /\ pc' = "clean_loop"
                /\ UNCHANGED error
    /\ UNCHANGED <<ui_vars, clock, fs_vars, nruns, runs_left, shell_vars, output_folder, acc, before, removed,
                   timestamp, chart_paths, res>>

\* clean_df, one column of its loop (lines 75-88)
clean_df_column ==
    /\ pc = "clean_loop"
    /\ idx <= Len(df.cols)
    /\ df' = CleanColumn(df, idx)
    /\ events' = Emit(events, CleanScaled(LoopPercent(idx, Len(df.cols))), "Cleaning",
                      "Cleaning columns: " \o ToString(idx) \o "/" \o ToString(Len(df.cols)))
    /\ idx' = idx + 1
    /\ UNCHANGED <<ui_vars, clock, fs_vars, nruns, runs_left, shell_vars, pc, output_folder, acc, read_files,
                   before, removed, timestamp, chart_paths, error, res>>

\* lines 268-276: cleaning is over; deduplicate
deduplicate ==
    /\ pc = "clean_loop"
    /\ idx > Len(df.cols)
    /\ LET r == remove_duplicates(df)
       IN  /\ before' = Len(df.rows)
           /\ df' = r.df
           /\ removed' = r.removed
           /\ events' = Emit(Emit(Emit(events, 55, "Cleaning", "Cleaning complete"),
                                  60, "Deduplicating", "Removing duplicates"),
                             70, "Deduplicating",
                             "Duplicates removed: " \o ToString(r.removed))
    /\ pc' = "save"
    /\ UNCHANGED <<ui_vars, clock, fs_vars, nruns, runs_left, shell_vars, output_folder, idx, acc, read_files,
                   timestamp, chart_paths, error, res>>

merged_path(folder, stamp) == Join(folder, "merged_output_" \o stamp \o ".xlsx")

cleaned_path(folder, stamp) == Join(folder, "cleaned_output_" \o stamp \o ".xlsx")

chart1_path(folder, stamp) == Join(folder, "chart_summary_" \o stamp \o ".png")

chart2_path(folder, stamp) == Join(folder, "chart_top_values_" \o stamp \o ".png")

pdf_path(folder, stamp) == Join(folder, "summary_report_" \o stamp \o ".pdf")

\* what a write to the file system can do: succeed, or raise (disk full, the
\* file locked by another program, a value the writer cannot encode)
IoOutcomes == {"ok", "raises"}

\* lines 279-285: the time stamp and the two workbooks
save_outputs ==
    /\ pc = "save"
    /\ \E o1 \in IoOutcomes, o2 \in IoOutcomes :
         LET stamp == ts(clock)
             mp == merged_path(output_folder, stamp)
             cp == cleaned_path(output_folder, stamp)
         IN  /\ timestamp' = stamp
             /\ events' = Emit(events, 75, "Saving", "Saving output files")
             /\ IF o1 = "raises"
                THEN /\ o2 = "ok"
                     /\ Raise("cannot write " \o mp)
                     /\ UNCHANGED <<disk, writes>>
                ELSE IF o2 = "raises"
                THEN /\ Raise("cannot write " \o cp)
                     /\ disk' = WriteFile(disk, mp)
                     /\ writes' = writes \cup {<<mp, nruns>>}
                ELSE /\ disk' = WriteFile(WriteFile(disk, mp), cp)
                     /\ writes' = writes \cup {<<mp, nruns>>, <<cp, nruns>>}
                     /\ pc' = "summarize"
                     /\ UNCHANGED error
    /\ UNCHANGED <<ui_vars, clock, dirs, run_dirs, nruns, runs_left, shell_vars, output_folder, idx, acc,
                   read_files, df, before, removed, chart_paths, res>>

\* lines 288-295: the column summary and the rows-per-source table; both are
\* computed from df and kept in locals that only the report reads
summarize ==
    /\ pc = "summarize"
    /\ events' = Emit(events, 80, "Summarizing", "Generating summaries")
    /\ pc' = "chart_summary"
    /\ UNCHANGED <<ui_vars, clock, fs_vars, nruns, runs_left, shell_vars, local_vars>>

\* lines 297-302
chart_summary ==
    /\ pc = "chart_summary"
    /\ \E o \in IoOutcomes :
         LET c1 == chart1_path(output_folder, timestamp)
         IN  /\ events' = Emit(events, 85, "Charting", "Creating chart: summary")
             /\ IF o = "raises"
                THEN /\ Raise("cannot write " \o c1)
                     /\ UNCHANGED <<disk, writes, chart_paths>>
                ELSE /\ disk' = WriteFile(disk, c1)
                     /\ writes' = writes \cup {<<c1, nruns>>}
                     /\ chart_paths' = <<c1>>
                     /\ pc' = "chart_top"
                     /\ UNCHANGED error
    /\ UNCHANGED <<ui_vars, clock, dirs, run_dirs, nruns, runs_left, shell_vars, output_folder, idx, acc,
                   read_files, df, before, removed, timestamp, res>>

\* [c for c in cleaned.columns if not is_numeric_dtype(cleaned[c])]
text_cols(d) == {j \in 1..Len(d.cols) : d.dtypes[j] # "numeric"}

\* lines 304-310
chart_top_values ==
    /\ pc = "chart_top"
    /\ \E o \in IoOutcomes :
         LET c2 == chart2_path(output_folder, timestamp)
             first == CHOOSE j \in text_cols(df) : \A k \in text_cols(df) : j <= k
         IN  IF text_cols(df) = {}
             THEN /\ o = "ok"
                  /\ pc' = "report"
                  /\ UNCHANGED <<disk, writes, chart_paths, error, events>>
             ELSE /\ events' = Emit(events, 88, "Charting",
                                    "Creating chart: top values (" \o df.cols[first] \o ")")
                  /\ IF o = "raises"
                     THEN /\ Raise("cannot write " \o c2)
                          /\ UNCHANGED <<disk, writes, chart_paths>>
                     ELSE /\ disk' = WriteFile(disk, c2)
                          /\ writes' = writes \cup {<<c2, nruns>>}
                          /\ chart_paths' = Append(chart_paths, c2)
                          /\ pc' = "report"
                          /\ UNCHANGED error
    /\ UNCHANGED <<ui_vars, clock, dirs, run_dirs, nruns, runs_left, shell_vars, output_folder, idx, acc,
                   read_files, df, before, removed, timestamp, res>>

\* lines 313-341: the report is built (a section that fails is replaced by a
\* diagnostic page), written, and the bundle returned
build_report ==
    /\ pc = "report"
    /\ \E o \in IoOutcomes :
         LET pp == pdf_path(output_folder, timestamp)
         IN  IF o = "raises"
             THEN /\ events' = Emit(events, 92, "Reporting", "Building PDF report")
                  /\ Raise("cannot write " \o pp)
                  /\ UNCHANGED <<disk, writes, res>>
             ELSE /\ events' = Emit(Emit(events, 92, "Reporting", "Building PDF report"),
                                    99, "Reporting", "Finalizing")
                  /\ disk' = WriteFile(disk, pp)
                  /\ writes' = writes \cup {<<pp, nruns>>}
                  /\ res' = [merged |-> merged_path(output_folder, timestamp),
                             cleaned |-> cleaned_path(output_folder, timestamp),
                             pdf |-> pp,
                             charts |-> chart_paths,
                             output_folder |-> output_folder,
                             rows |-> Len(df.rows),
                             duplicates_removed |-> removed,
                             read_files |-> read_files]
                  /\ pc' = "returned"
                  /\ UNCHANGED error
    /\ UNCHANGED <<ui_vars, clock, dirs, run_dirs, nruns, runs_left, shell_vars, output_folder, idx, acc,
                   read_files, df, before, removed, timestamp, chart_paths>>

\* ---------------------------------------------------------------- App._background_process
\* progress_popup.update(100, "Completed")
CompletedUpdate(evs) == Emit(evs, 100, "Done", "Completed")

\* the error branch without its final update
ErrorUpdateMissing(evs, e) == evs

\* the final update of the error branch without the exception's text
ErrorUpdateNoText(evs, e) == Emit(evs, 100, "Done", "Error")

\* progress_popup.update(100, f"Error: {e}"), scheduled on the main loop while
\* the worker sleeps 0.5 s inside the except block: e is still bound when the
\* main loop serves the 0 ms timer within that time
ErrorUpdate(evs, e) == Emit(evs, 100, "Done", "Error: " \o e)

\* lines 526-529: the bundle is back; the final update
bg_completed ==
    /\ pc = "returned"
    /\ last_run_folder' = res.output_folder
    /\ events' = CompletedUpdate(events)
    /\ pc' = "bg_done"
    /\ UNCHANGED <<files, btn_state, popup_open, dialog, clock, fs_vars, nruns, runs_left, shell_vars,
                   local_vars>>

\* lines 530-546: the popup closes, the buttons come back, the result is shown
bg_completed_finish ==
    /\ pc = "bg_done"
    /\ popup_open' = FALSE
    /\ btn_state' = set_ui_state(TRUE)
    /\ dialog' = "Done"
    /\ pc' = "idle"
    /\ LocalsGone
    /\ events' = <<>>
    /\ UNCHANGED <<files, last_run_folder, clock, fs_vars, nruns, runs_left, shell_vars>>

\* lines 547-549: the exception is caught; the final update carries its text
bg_failed ==
    /\ pc = "raised"
    /\ events' = ErrorUpdate(events, error)
    /\ pc' = "bg_failed"
    /\ UNCHANGED <<ui_vars, clock, fs_vars, nruns, runs_left, shell_vars, local_vars>>

\* lines 550-553.  The lambda that shows the error box reads e when the main
\* loop runs it; the except block ends right after scheduling it and unbinds
\* e, so the box comes up only if the main loop wins that race (otherwise the
\* callback dies with a NameError and no box is shown).
bg_failed_finish ==
    /\ pc = "bg_failed"
    /\ popup_open' = FALSE
    /\ btn_state' = set_ui_state(TRUE)
    /\ \E shown \in BOOLEAN : dialog' = IF shown THEN "Processing error" ELSE "none"
    /\ pc' = "idle"
    /\ LocalsGone
    /\ events' = <<>>
    /\ UNCHANGED <<files, last_run_folder, clock, fs_vars, nruns, runs_left, shell_vars>>

Next ==
    \/ Tick
    \/ \E p \in InputFiles : add_files(p)
    \/ clear_list
    \/ dismiss_dialog
    \/ on_process_click
    \/ par_start
    \/ merge_and_tag_file
    \/ load_done
    \/ clean_df_column
    \/ deduplicate
    \/ save_outputs
    \/ summarize
    \/ chart_summary
    \/ chart_top_values
    \/ build_report
    \/ bg_completed
    \/ bg_completed_finish
    \/ bg_failed
    \/ bg_failed_finish

Spec == Init /\ [][Next]_vars

SpecLonger == InitLonger /\ [][Next]_vars

\* ---------------------------------------------------------------- direct call
\* process_and_report(files, progress_callback) called by a program of its
\* own, without the App: any list of paths, the empty one included, in a
\* working directory that has no output folder yet.  events is the sequence
\* of calls the progress callback received.
FileLists == UNION {[1..n -> InputFiles] : n \in 0..MaxFiles}

InitDirect ==
    /\ files \in FileLists
    /\ btn_state = "normal"
    /\ popup_open = FALSE
    /\ dialog = "none"
    /\ last_run_folder = ""
    /\ clock = 0
    /\ dirs = {}
    /\ disk = [p \in {} |-> 0]
    /\ writes = {}
    /\ run_dirs = <<>>
    /\ nruns = 1
    /\ runs_left = 0
    /\ after_queue = <<>>
    /\ tails = <<>>
    /\ pc = "start"
    /\ LocalsInit
    /\ events = <<>>

NextDirect ==
    \/ Tick
    \/ par_start
    \/ merge_and_tag_file
    \/ load_done
    \/ clean_df_column
    \/ deduplicate
    \/ save_outputs
    \/ summarize
    \/ chart_summary
    \/ chart_top_values
    \/ build_report

SpecDirect == InitDirect /\ [][NextDirect]_vars

\* ---------------------------------------------------------------- remove_duplicates on its own
\* the rows a table is drawn from: two share the name, two share the score
DedupRows ==
    {<<Text("Al"), Num(10)>>, <<Text("Al"), Num(20)>>, <<Text("Bo"), Num(10)>>}

DedupTables ==
    {Frame(<<"Name", "Score">>, <<"object", "numeric">>, rows) :
        rows \in UNION {[1..n -> DedupRows] : n \in 0..MaxRows}}

\* process_and_report at line 273, about to call remove_duplicates(cleaned),
\* with any table of up to MaxRows rows as the cleaned table
InitDedup ==
    /\ files = <<PathA>>
    /\ btn_state = "normal"
    /\ popup_open = FALSE
    /\ dialog = "none"
    /\ last_run_folder = ""
    /\ clock = 0
    /\ dirs = {}
    /\ disk = [p \in {} |-> 0]
    /\ writes = {}
    /\ run_dirs = <<>>
    /\ nruns = 1
    /\ runs_left = 0
    /\ after_queue = <<>>
    /\ tails = <<>>
    /\ pc = "clean_loop"
    /\ output_folder = ""
    /\ df \in DedupTables
    /\ idx = Len(df.cols) + 1
    /\ acc = EmptyAcc
    /\ read_files = <<>>
    /\ before = 0
    /\ removed = 0
    /\ timestamp = ""
    /\ chart_paths = <<>>
    /\ error = ""
    /\ res = NoBundle
    /\ events = <<>>

NextDedup ==
    \/ deduplicate

SpecDedup == InitDedup /\ [][NextDedup]_vars

\* ---------------------------------------------------------------- the shell with Tk's timer queue
\* the files picked in the dialog: one that loads and one that does not
ShellFiles == {PathA, PathBad}

InitShell ==
    /\ InitApp
    /\ runs_left = MaxRuns + 1

\* the user closes the ProgressPopup with its window button (the Toplevel has
\* no WM_DELETE_WINDOW handler): the window and its grab are gone
popup_window_closed ==
    /\ popup_open
    /\ popup_open' = FALSE
    /\ UNCHANGED <<files, btn_state, dialog, last_run_folder, clock, fs_vars,
                   nruns, runs_left, shell_vars, pc, local_vars, events>>

\* lines 530-531 and 550-551: after its sleep the worker asks the main loop
\* to close the popup
schedule_close ==
    /\ pc \in {"bg_done", "bg_failed"}
    /\ after_queue' = Append(after_queue, "close")
    /\ pc' = IF pc = "bg_done" THEN "bg_done_closing" ELSE "bg_failed_closing"
    /\ UNCHANGED <<ui_vars, clock, fs_vars, nruns, runs_left, tails, local_vars, events>>

\* lines 533 and 552: the worker asks for the buttons back.  What is left of
\* the thread is the scheduling of its message box (lines 535-546, line 553).
schedule_set_ui_state ==
    /\ pc \in {"bg_done_closing", "bg_failed_closing"}
    /\ after_queue' = Append(after_queue, "set_ui_state")
    /\ tails' = Append(tails, IF pc = "bg_done_closing" THEN "showinfo" ELSE "showerror")
    /\ pc' = "idle"
    /\ LocalsGone
    /\ events' = <<>>
    /\ UNCHANGED <<ui_vars, clock, fs_vars, nruns, runs_left>>

\* lines 543 and 553: the message box is scheduled and the thread ends
schedule_messagebox(i) ==
    /\ i \in 1..Len(tails)
    /\ after_queue' = Append(after_queue, tails[i])
    /\ tails' = SubSeq(tails, 1, i - 1) \o SubSeq(tails, i + 1, Len(tails))
    /\ UNCHANGED <<ui_vars, clock, fs_vars, nruns, runs_left, pc, local_vars, events>>

\* the main loop runs the oldest pending callback.  The error box reads e,
\* which the worker unbinds when it leaves the except block: the box comes up
\* or the callback dies with a NameError.
mainloop_callback ==
    /\ after_queue # <<>>
    /\ after_queue' = Tail(after_queue)
    /\ LET cb == Head(after_queue)
       IN  CASE cb = "close" ->
                  /\ popup_open' = FALSE
                  /\ UNCHANGED <<btn_state, dialog>>
             [] cb = "set_ui_state" ->
                  /\ btn_state' = set_ui_state(TRUE)
                  /\ UNCHANGED <<popup_open, dialog>>
             [] cb = "showinfo" ->
                  /\ dialog' = "Done"
                  /\ UNCHANGED <<btn_state, popup_open>>
             [] cb = "showerror" ->
                  /\ \E shown \in BOOLEAN :
                        dialog' = IF shown THEN "Processing error" ELSE dialog
                  /\ UNCHANGED <<btn_state, popup_open>>
    /\ UNCHANGED <<files, last_run_folder, clock, fs_vars, nruns, runs_left, tails, pc,
                   local_vars, events>>

\* the steps of the worker thread while its run is in flight
Worker ==
    \/ par_start
    \/ merge_and_tag_file
    \/ load_done
    \/ clean_df_column
    \/ deduplicate
    \/ save_outputs
    \/ summarize
    \/ chart_summary
    \/ chart_top_values
    \/ build_report
    \/ bg_completed
    \/ bg_failed
    \/ schedule_close
    \/ schedule_set_ui_state

NextShell ==
    \/ \E p \in ShellFiles : add_files(p)
    \/ clear_list
    \/ dismiss_dialog
    \/ on_process_click
    \/ popup_window_closed
    \/ Worker
    \/ \E i \in 1..Len(tails) : schedule_messagebox(i)
    \/ mainloop_callback

SpecShell == InitShell /\ [][NextShell]_vars

\* ================================================================ properties
Percent(i) == events[i].percent

Last(s) == s[Len(s)]

InRun == pc # "idle"

RunEnded == pc \in {"bg_done", "bg_failed"}

Hundreds == {i \in 1..Len(events) : Percent(i) = 100}

NoReadableMsg == "No readable data found in the provided files."

\* C1: within a run the percents passed to the progress callback never
\* decrease, the scaled sub-progress of merge_and_tag and clean_df included.
C1_PercentNonDecreasing ==
    \A i \in 1..(Len(events) - 1) : Percent(i) <= Percent(i + 1)

\* a run over two files with its loading and cleaning sub-progress emitted
C1_Witness ==
    /\ pc = "bg_done"
    /\ Len(files) = 2
    /\ \E i \in 1..Len(events) : events[i].status = "Loaded 1/2 files"
    /\ \E i \in 1..Len(events) : events[i].status = "Cleaning columns: 2/3"

\* C2: a run that has ended, with a bundle or with an exception, has emitted
\* percent 100 exactly once, as its last event; a run that has not ended has
\* not emitted it.
C2_HundredOnceAndLast ==
    /\ RunEnded => /\ events # <<>>
                   /\ Hundreds = {Len(events)}
    /\ ~RunEnded => Hundreds = {}

\* a run that failed after it had emitted progress
C2_Witness ==
    /\ pc = "bg_failed"
    /\ Len(events) > 2
    /\ Last(events).percent = 100

\* the stages in order, and the percent range documented for each
StageOrder ==
    <<"Loading", "Cleaning", "Deduplicating", "Saving", "Summarizing", "Charting",
      "Reporting", "Done">>

StageRange(stage) ==
    CASE stage = "Loading" -> 5..25
      [] stage = "Cleaning" -> 30..55
      [] stage = "Deduplicating" -> 60..70
      [] stage = "Saving" -> {75}
      [] stage = "Summarizing" -> {80}
      [] stage = "Charting" -> 85..90
      [] stage = "Reporting" -> 92..99
      [] stage = "Done" -> {100}

\* the stages of the events, each run of equal stages taken once
RECURSIVE StagesOf(_)
StagesOf(evs) ==
    IF evs = <<>> THEN <<>>
    ELSE LET init == StagesOf(SubSeq(evs, 1, Len(evs) - 1))
             st == Last(evs).stage
         IN  IF init # <<>> /\ Last(init) = st THEN init ELSE Append(init, st)

\* C3: a successful run goes through the eight stages in order, none skipped,
\* each with at least one event, and every event's percent lies in the range
\* of the stage that emitted it.
C3_StagesInOrder ==
    /\ \A i \in 1..Len(events) : Percent(i) \in StageRange(events[i].stage)
    /\ pc = "bg_done" => StagesOf(events) = StageOrder
    /\ (InRun /\ error = "") =>
          StagesOf(events) = SubSeq(StageOrder, 1, Len(StagesOf(events)))

\* a successful run that has emitted its last event
C3_Witness ==
    /\ pc = "bg_done"
    /\ Len(events) >= 14

\* C4: once a run has failed nothing of a later stage happens: the only
\* event after the failure is the final one, percent 100 with the error
\* text; the caller holds the exception and no bundle; the directories and
\* the files on disk stay as they were.
C4_FailureAborts ==
    /\ [](pc \in {"raised", "bg_failed"} => /\ error # ""
                                           /\ res = NoBundle)
    /\ [](pc = "bg_failed" => /\ Last(events).percent = 100
                              /\ Last(events).status = "Error: " \o error)
    /\ [][pc = "raised" => /\ pc' \in {"raised", "bg_failed"}
                           /\ disk' = disk /\ dirs' = dirs /\ writes' = writes
                           /\ SubSeq(events', 1, Len(events)) = events
                           /\ Len(events') <= Len(events) + 1]_vars
    /\ [][pc = "bg_failed" => /\ pc' \in {"bg_failed", "idle"}
                              /\ disk' = disk /\ dirs' = dirs /\ writes' = writes
                              /\ pc' = "bg_failed" => events' = events]_vars

\* a run that failed with the merged workbook already written
C4_Witness ==
    /\ pc = "bg_failed"
    /\ \E w \in writes : w[2] = nruns
    /\ Last(events).status = "Error: " \o error

Readable(f) == load_file(f).ok

NoneReadable(fs) == \A i \in 1..Len(fs) : ~Readable(fs[i])

WrittenByRun(r) == {w \in writes : w[2] = r}

\* C5: a run over a non-empty list with no readable file raises the
\* no-readable-data error and writes no output file.
C5_NoReadableNoOutput ==
    (InRun /\ files # <<>> /\ NoneReadable(files)) =>
        /\ pc \in {"start", "load_loop", "raised", "bg_failed"}
        /\ WrittenByRun(nruns) = {}
        /\ pc \in {"raised", "bg_failed"} => error = NoReadableMsg

\* a run over two unreadable files that has raised
C5_Witness ==
    /\ pc = "raised"
    /\ Len(files) = 2
    /\ NoneReadable(files)
    /\ error = NoReadableMsg

\* the base names of the readable files, in input order
LoadedNames(fs) ==
    LET ok == SelectSeq(fs, Readable)
    IN  [i \in 1..Len(ok) |-> Basename(ok[i])]

\* some readable file of the list holds a data row
HasData(fs) == \E i \in 1..Len(fs) : Readable(fs[i]) /\ load_file(fs[i]).df.rows # <<>>

Failed == pc \in {"raised", "bg_failed"}

Returned == pc \in {"returned", "bg_done"}

\* C6 as stated: a list with at least one readable file gives a bundle (the
\* run does not fail), and the bundle's read_files is the readable files'
\* base names in input order.
C6_ReadableListGivesBundle ==
    /\ (Failed /\ files # <<>>) => NoneReadable(files)
    /\ Returned => res.read_files = LoadedNames(files)

\* C6 amended: a list whose readable files hold at least one data row does
\* not fail with the no-readable-data error (only a write that raises makes
\* it fail); a list whose readable files hold no row fails with that error;
\* a file that fails to load is skipped, and the bundle's read_files is the
\* readable files' base names in input order.
C6_ReadFilesAreLoadedFiles ==
    /\ (Failed /\ HasData(files)) => error # NoReadableMsg
    /\ (InRun /\ files # <<>> /\ ~HasData(files)) =>
          pc \in {"start", "load_loop", "raised", "bg_failed"}
    /\ pc = "load_loop" =>
          acc.read_files = LoadedNames(SubSeq(files, 1, idx - 1))
    /\ Returned => res.read_files = LoadedNames(files)

\* a bundle from a list whose first file failed to load
C6_Witness ==
    /\ pc = "returned"
    /\ Len(files) = 2
    /\ ~Readable(files[1])
    /\ res.read_files = <<Basename(files[2])>>

NoTwoEqual(rows) ==
    \A i, j \in 1..Len(rows) : i # j => rows[i] # rows[j]

RECURSIVE RowsLoaded(_)
RowsLoaded(fs) ==
    IF fs = <<>> THEN 0
    ELSE RowsLoaded(SubSeq(fs, 1, Len(fs) - 1))
           + (IF Readable(Last(fs)) THEN Len(load_file(Last(fs)).df.rows) ELSE 0)

\* C7: in a bundle, duplicates_removed is the number of rows after merge and
\* clean minus the number of rows of the final table, rows is the number of
\* rows of the final table, and no two rows of the final table are equal.
C7_DuplicateCount ==
    Returned =>
        /\ before = RowsLoaded(files)
        /\ res.duplicates_removed = before - Len(df.rows)
        /\ res.rows = Len(df.rows)
        /\ NoTwoEqual(df.rows)

\* a bundle of a run that removed a duplicate
C7_Witness ==
    /\ pc = "returned"
    /\ res.duplicates_removed > 0
    /\ res.rows > 0

\* C8: in the run over a.csv and b.csv the row (Al, 10) of b.csv is removed
\* as a duplicate of the same row of a.csv: 4 rows merged, 1 removed, 3 left.
C8_CrossFileDuplicateRemoved ==
    (pc = "returned" /\ files = <<PathA, PathB>>) =>
        /\ before = 4
        /\ res.duplicates_removed = 1
        /\ res.rows = 3

\* C9: cleaning a cleaned table changes no cell.
C9_CleanIdempotent ==
    (pc = "clean_loop" /\ idx > Len(df.cols)) => clean_df(df).rows = df.rows

\* C10: two runs never share a run folder and never write the same path.
C10_RunsNeverCollide ==
    /\ \A i, j \in 1..Len(run_dirs) : i # j => run_dirs[i] # run_dirs[j]
    /\ \A w1, w2 \in writes : w1[1] = w2[1] => w1[2] = w2[2]

NoFilesMsg == "No files provided."

\* C11: process_and_report called with an empty list raises the ValueError
\* "No files provided." before any I/O: neither the base output directory
\* nor a run directory is created, no file is read or written, and the
\* progress callback has not been called when the error is raised.
C11_EmptyListFailsBeforeIO ==
    files = <<>> =>
        /\ pc \in {"start", "raised"}
        /\ pc = "raised" => error = NoFilesMsg
        /\ dirs = {}
        /\ run_dirs = <<>>
        /\ acc = EmptyAcc
        /\ writes = {}
        /\ events = <<>>
        /\ res = NoBundle

\* the call with the empty list has raised
C11_Witness ==
    /\ files = <<>>
    /\ pc = "raised"
    /\ error = NoFilesMsg
    /\ dirs = {}

\* the positions of the rows that no earlier row equals in every column
FirstOccurrences(rows) ==
    {i \in 1..Len(rows) : \A j \in 1..(i - 1) : rows[j] # rows[i]}

\* the rows at the positions S, in the order of the positions
RowsAt(rows, S) ==
    LET f == CHOOSE g \in [1..Cardinality(S) -> S] :
                 \A a, b \in 1..Cardinality(S) : a < b => g[a] < g[b]
    IN  [k \in 1..Cardinality(S) |-> rows[f[k]]]

\* C12: remove_duplicates keeps, of every group of rows equal in every
\* column, the first row and no later one, leaves the kept rows in the order
\* they had, leaves the columns as they were, and returns the number of rows
\* it removed.
C12_KeepsFirstOccurrences ==
    [][(pc = "clean_loop" /\ pc' = "save") =>
          /\ df'.rows = RowsAt(df.rows, FirstOccurrences(df.rows))
          /\ df'.cols = df.cols
          /\ df'.dtypes = df.dtypes
          /\ before' = Len(df.rows)
          /\ removed' = Len(df.rows) - Len(df'.rows)]_vars

\* a table of four rows came back with two rows, the first of them a row
\* that the table held again after the second
C12_Witness ==
    /\ pc = "save"
    /\ before = 4
    /\ removed = 2
    /\ df.rows = << <<Text("Al"), Num(10)>>, <<Text("Bo"), Num(10)>> >>

====
